---- MODULE Spec2Model ----
(***************************************************************************)
(* ftclient.py: the client of a two-channel file transfer.  The client     *)
(* listens on a data port, connects to the server's control port, sends    *)
(* one request, reads the reply, accepts the server's connect-back and     *)
(* prints a listing or stores a file.                                      *)
(*                                                                         *)
(* Text and bytes are sequences of one-character strings.  The program is  *)
(* sequential: pc is its position in the main program / receiveData.  The  *)
(* server and the user are the environment.                                *)
(***************************************************************************)
EXTENDS Integers, Sequences, FiniteSets, TLC

VARIABLES
    argv,       \* sys.argv, a sequence of strings
    pc,         \* position of the program
    exitCode,   \* process exit status; -1 while the process runs
    exitAt,     \* "none" | "usage" | "crash" | "error" | "end"
    listener,   \* s2: "none" | "created" | "bound" | "listening" | "closed"
    control,    \* s:  "none" | "created" | "connected" | "closed"
    dataConn,   \* dpConnection: "none" | "open" | "closed"
    wire,       \* the requests transmitted on the control channel, in order
    prompt,     \* [shown, answer]: the overwrite prompt (line 161)
    fs,         \* the local file sys.argv[4]: [exists, data]
    fs0,        \* the local file when the program started
    fOpen,      \* the handle f of line 166 is open
    received,   \* bytes the client has read from the data connection
    ops,        \* the socket, file and exit operations performed, in order
    out,        \* the lines printed, in order
    ctrlBuf,    \* control channel, server -> client, bytes not yet read
    ctrlSends,  \* number of control messages the server has sent
    ctrlEof,    \* the server has closed the control connection
    conns,      \* number of connections the server made to the data port
    dataBuf,    \* first data connection, bytes not yet read
    dataSent,   \* all bytes the server sent on the first data connection
    dataEof     \* the server has closed the first data connection

vars == <<argv, pc, exitCode, exitAt, listener, control, dataConn, wire,
          prompt, fs, fs0, fOpen, received, ops, out,
          ctrlBuf, ctrlSends, ctrlEof, conns, dataBuf, dataSent, dataEof>>

progVars == <<pc, exitCode, exitAt, listener, control, dataConn, wire,
              prompt, fs, fOpen, received, ops, out>>

envVars == <<ctrlBuf, ctrlSends, ctrlEof, conns, dataBuf, dataSent, dataEof>>

-----------------------------------------------------------------------------
(* Bounds of the model *)

MaxCtrlSends == 2   \* control messages the server sends in one session
MaxConnects == 2    \* connections the server makes to the data port
MaxData == 3        \* bytes the server sends on the data connection
MaxNameLen == 56    \* characters of the longest file name requested

-----------------------------------------------------------------------------
(* Program constants *)

MAX_LIMIT == 1024
ChunkSize == 1024
MinArgs == 5
MaxArgs == 6

-----------------------------------------------------------------------------
(* Text helpers *)

ERROR_COLON == <<"E", "R", "R", "O", "R", ":">>
ERROR_BARE == <<"E", "R", "R", "O", "R">>
NL == "\n"

\* Python's `sub in s` for a non-empty sub
Contains(s, sub) ==
    \E i \in 1..(Len(s) - Len(sub) + 1) : SubSeq(s, i, i + Len(sub) - 1) = sub

Count(s, x) == Cardinality({i \in 1..Len(s) : s[i] = x})

Min(a, b) == IF a < b THEN a ELSE b

\* str.strip('\n'): drops every leading and every trailing newline
RECURSIVE LStrip(_)
LStrip(s) == IF s # <<>> /\ Head(s) = NL THEN LStrip(Tail(s)) ELSE s

RECURSIVE RStrip(_)
RStrip(s) ==
    IF s # <<>> /\ s[Len(s)] = NL THEN RStrip(SubSeq(s, 1, Len(s) - 1)) ELSE s

Strip(s) == RStrip(LStrip(s))

\* bytes.decode("utf-8"): one-byte characters decode to themselves, the two
\* bytes xC3 xA9 decode to the one character U+E9, and a lead byte without its
\* continuation byte, or a lone continuation byte, raises UnicodeDecodeError.
RECURSIVE DecodeOK(_)
DecodeOK(b) ==
    IF b = <<>> THEN TRUE
    ELSE IF Head(b) = "xC3"
         THEN Len(b) >= 2 /\ b[2] = "xA9" /\ DecodeOK(SubSeq(b, 3, Len(b)))
    ELSE IF Head(b) = "xA9" THEN FALSE
    ELSE DecodeOK(Tail(b))

RECURSIVE Decode(_)
Decode(b) ==
    IF b = <<>> THEN <<>>
    ELSE IF Head(b) = "xC3" THEN <<"U+E9">> \o Decode(SubSeq(b, 3, Len(b)))
    ELSE <<Head(b)>> \o Decode(Tail(b))

\* str.lower() on the characters an answer is made of
LowerChar(c) == CASE c = "N" -> "n" [] c = "O" -> "o" [] c = "Y" -> "y" [] OTHER -> c

Lower(s) == [i \in 1..Len(s) |-> LowerChar(s[i])]

\* socket.recv(n) on a stream holding buf: the bytes that have arrived, at
\* most n of them; nothing at all once the peer has closed and the stream is
\* empty.  What arrives later is left to a later recv.
RecvSizes(buf, n) == {Min(Len(buf), n)}

CanRecv(buf, eof) == buf # <<>> \/ eof

-----------------------------------------------------------------------------
(* Inputs *)

PortArgs == {<<"8", "0">>, <<"p">>}

\* int(s) succeeds on a non-empty string of decimal digits
Digits == {"0", "1", "2", "3", "4", "5", "6", "7", "8", "9"}
IsInt(s) == s # <<>> /\ \A i \in 1..Len(s) : s[i] \in Digits

CtrlMsgs ==
    { <<"O", "K", NL>>,
      ERROR_COLON,
      ERROR_BARE,
      <<"N", "O", "E", "R", "R", "O", "R", "H", "E", "R", "E">>,
      <<"e", "r", "r", "o", "r", ":">>,
      <<"xC3", "xA9">> }

DataBytes == {"a", NL, "xA9"}

OldFiles == { [exists |-> FALSE, data |-> <<>>],
              [exists |-> TRUE, data |-> <<"z", "z", "z">>] }

Answers == { <<"n">>, <<"N">>, <<>>, <<"y">>, <<"n", "o">> }

NoPrompt == [shown |-> FALSE, answer |-> <<>>]

Line(k, t) == [k |-> k, t |-> t]

-----------------------------------------------------------------------------
(* sys.argv: argv[i + 1] is Python's sys.argv[i] *)

Arg(i) == argv[i + 1]

CmdList == <<"-", "l">>
CmdGet == <<"-", "g">>
CmdOther == <<"-", "x">>
FileName == <<"f">>
DataPortArgs == {<<"5", "0">>, <<"x">>}

ArgTails ==
    {<<>>} \cup {<<dp>> : dp \in DataPortArgs}
           \cup {<<FileName, dp>> : dp \in DataPortArgs}
           \cup {<<FileName, dp, <<"e">>>> : dp \in DataPortArgs}

Argvs ==
    { <<<<"ftclient.py">>, <<"h">>, p, c>> \o t :
        p \in PortArgs, c \in {CmdList, CmdGet, CmdOther}, t \in ArgTails }

\* int() of a string of decimal digits, str() of a natural number
DigitSeq == <<"0", "1", "2", "3", "4", "5", "6", "7", "8", "9">>
DigitVal(c) == CHOOSE d \in 0..9 : DigitSeq[d + 1] = c

RECURSIVE ParseInt(_)
ParseInt(s) ==
    IF Len(s) = 1 THEN DigitVal(s[1])
    ELSE 10 * ParseInt(SubSeq(s, 1, Len(s) - 1)) + DigitVal(s[Len(s)])

RECURSIVE Str(_)
Str(n) ==
    IF n < 10 THEN <<DigitSeq[n + 1]>>
    ELSE Str(n \div 10) \o <<DigitSeq[(n % 10) + 1]>>

-----------------------------------------------------------------------------
(* syntaxCheck, getDataPort, makeRequest *)

PadLen == 99

\* the two conditions under which syntaxCheck calls badSyntaxExit
BadSyntax(args) ==
    \/ Len(args) < MinArgs \/ Len(args) > MaxArgs
    \/ (args[4] = CmdGet /\ Len(args) < MaxArgs)

\* the argument getDataPort converts
DataPortArg == IF Len(argv) = MinArgs THEN Arg(4) ELSE Arg(5)

getDataPort == ParseInt(DataPortArg)

S_PORTSTART == <<"P", "O", "R", "T", "S", "T", "A", "R", "T", ":">>
S_PORTEND == <<"P", "O", "R", "T", "E", "N", "D">>
S_CMD == <<"C", "M", "D", ":">>
S_LIST == <<"L", "I", "S", "T">>
S_GET == <<"G", "E", "T">>
S_FILENAME == <<"F", "I", "L", "E", "N", "A", "M", "E", ":">>
S_FILENAMEEND == <<"F", "I", "L", "E", "N", "A", "M", "E", "E", "N", "D">>
S_UNKNOWN == <<"U", "N", "K", "N", "O", "W", "N">>

CmdBody ==
    IF Arg(3) = CmdList THEN S_LIST
    ELSE IF Arg(3) = CmdGet THEN S_GET \o S_FILENAME \o Arg(4) \o S_FILENAMEEND
    ELSE S_UNKNOWN

\* Pad filling with blanks
PadBlank(s) == IF Len(s) < PadLen THEN s \o [i \in 1..(PadLen - Len(s)) |-> " "] ELSE s

\* lines 110-111: '#' is appended while the string is shorter than 99
Pad(s) == IF Len(s) < PadLen THEN s \o [i \in 1..(PadLen - Len(s)) |-> "#"] ELSE s

makeRequest(dataPort) ==
    Pad(S_PORTSTART \o Str(dataPort) \o S_PORTEND \o S_CMD \o CmdBody) \o <<"NUL">>

-----------------------------------------------------------------------------
(* The start of a run *)

Init ==
    /\ argv \in Argvs
    /\ fs0 \in OldFiles
    /\ fs = fs0
    /\ pc = "start"
    /\ exitCode = -1
    /\ exitAt = "none"
    /\ listener = "none"
    /\ control = "none"
    /\ dataConn = "none"
    /\ wire = <<>>
    /\ prompt = NoPrompt
    /\ fOpen = FALSE
    /\ received = <<>>
    /\ ops = <<>>
    /\ out = <<>>
    /\ ctrlBuf = <<>>
    /\ ctrlSends = 0
    /\ ctrlEof = FALSE
    /\ conns = 0
    /\ dataBuf = <<>>
    /\ dataSent = <<>>
    /\ dataEof = FALSE

\* An uncaught exception: the interpreter prints a traceback and the process
\* ends with status 1; whatever the handler did before raising is in `done`.
Crash(done) ==
    /\ pc' = "exited"
    /\ exitCode' = 1
    /\ exitAt' = "crash"
    /\ ops' = ops \o done \o <<"exit1">>

-----------------------------------------------------------------------------
(* The main program, lines 202-245 *)

\* line 203: syntaxCheck(sys.argv); badSyntaxExit prints the usage and exits 1
SyntaxCheck ==
    /\ pc = "start"
    /\ IF BadSyntax(argv)
       THEN /\ pc' = "exited"
            /\ exitCode' = 1
            /\ exitAt' = "usage"
            /\ out' = out \o <<Line("usage", <<>>)>>
            /\ ops' = ops \o <<"exit1">>
       ELSE /\ pc' = "getport"
            /\ UNCHANGED <<exitCode, exitAt, out, ops>>
    /\ UNCHANGED <<argv, fs0, listener, control, dataConn, wire, prompt, fs, fOpen, received>>
    /\ UNCHANGED envVars

\* lines 206-211: getDataPort raises ValueError on a data port that is no
\* number; makeRequest builds the string sent later
GetDataPort ==
    /\ pc = "getport"
    /\ IF IsInt(DataPortArg)
       THEN /\ pc' = "socketStart"
            /\ UNCHANGED <<exitCode, exitAt, ops>>
       ELSE Crash(<<>>)
    /\ UNCHANGED <<argv, fs0, listener, control, dataConn, wire, prompt, fs, fOpen, received, out>>
    /\ UNCHANGED envVars

\* line 214: socketStart creates the socket and binds it; bind may fail
SocketStart ==
    /\ pc = "socketStart"
    /\ \E ok \in BOOLEAN :
         IF ok
         THEN /\ listener' = "bound"
              /\ pc' = "listen"
              /\ ops' = ops \o <<"socket2", "bind">>
              /\ UNCHANGED <<exitCode, exitAt>>
         ELSE /\ listener' = "created"
              /\ Crash(<<"socket2">>)
    /\ UNCHANGED <<argv, fs0, control, dataConn, wire, prompt, fs, fOpen, received, out>>
    /\ UNCHANGED envVars

\* Listen without the call of s2.listen()
ListenSkipped ==
    /\ pc = "listen"
    /\ out' = out \o <<Line("listening", Str(getDataPort))>>
    /\ pc' = "connect"
    /\ UNCHANGED <<argv, fs0, exitCode, exitAt, listener, control, dataConn,
                   wire, prompt, fs, fOpen, received, ops>>
    /\ UNCHANGED envVars

\* lines 215-216: s2.listen()
Listen ==
    /\ pc = "listen"
    /\ listener' = "listening"
    /\ ops' = ops \o <<"listen">>
    /\ out' = out \o <<Line("listening", Str(getDataPort))>>
    /\ pc' = "connect"
    /\ UNCHANGED <<argv, fs0, exitCode, exitAt, control, dataConn, wire,
                   prompt, fs, fOpen, received>>
    /\ UNCHANGED envVars

\* initiateContact swallowing the failure and returning the unconnected socket
InitiateContactQuiet ==
    /\ pc = "connect"
    /\ \E accepted \in BOOLEAN :
         IF IsInt(Arg(2)) /\ accepted
         THEN /\ control' = "connected"
              /\ ops' = ops \o <<"socket", "connect">>
         ELSE /\ control' = "created"
              /\ ops' = ops \o <<"socket">>
    /\ pc' = "send"
    /\ UNCHANGED <<exitCode, exitAt>>
    /\ UNCHANGED <<argv, fs0, listener, dataConn, wire, prompt, fs, fOpen, received, out>>
    /\ UNCHANGED envVars

\* line 219: initiateContact creates the socket, converts the port (ValueError
\* on a port that is no number) and connects (refused when no server accepts)
InitiateContact ==
    /\ pc = "connect"
    /\ \E accepted \in BOOLEAN :
         IF IsInt(Arg(2)) /\ accepted
         THEN /\ control' = "connected"
              /\ pc' = "send"
              /\ ops' = ops \o <<"socket", "connect">>
              /\ UNCHANGED <<exitCode, exitAt>>
         ELSE /\ control' = "created"
              /\ Crash(<<"socket">>)
    /\ UNCHANGED <<argv, fs0, listener, dataConn, wire, prompt, fs, fOpen, received, out>>
    /\ UNCHANGED envVars

\* Send going on to the accept without reading the reply
SendNoReply ==
    /\ pc = "send"
    /\ wire' = Append(wire, makeRequest(getDataPort))
    /\ ops' = ops \o <<"send">>
    /\ pc' = "accept"
    /\ UNCHANGED <<argv, fs0, exitCode, exitAt, listener, control, dataConn,
                   prompt, fs, fOpen, received, out>>
    /\ UNCHANGED envVars

\* lines 220-221: s.send(bytes(startString, "utf8"))
Send ==
    /\ pc = "send"
    /\ wire' = Append(wire, makeRequest(getDataPort))
    /\ ops' = ops \o <<"send">>
    /\ pc' = "confirm"
    /\ UNCHANGED <<argv, fs0, exitCode, exitAt, listener, control, dataConn,
                   prompt, fs, fOpen, received, out>>
    /\ UNCHANGED envVars

\* getMsg, lines 33-37: the text of what one recv returned
getMsg(bytes) == Strip(Decode(bytes))

\* the test of line 225
IsErrorReply(text) == Contains(text, ERROR_COLON)

\* lines 224-230: confirm = getMsg(s), where recv blocks until bytes or the
\* end of the stream.  An error reply is printed, both sockets are closed and
\* the process exits 0; anything else goes on to the accept
GetConfirm ==
    /\ pc = "confirm"
    /\ CanRecv(ctrlBuf, ctrlEof)
    /\ \E n \in RecvSizes(ctrlBuf, MAX_LIMIT) :
         LET raw == SubSeq(ctrlBuf, 1, n)
             confirm == getMsg(raw)
         IN  /\ ctrlBuf' = SubSeq(ctrlBuf, n + 1, Len(ctrlBuf))
             /\ IF ~DecodeOK(raw)
                THEN /\ Crash(<<"recvCtrl">>)
                     /\ UNCHANGED <<out, control, listener>>
                ELSE IF IsErrorReply(confirm)
                THEN /\ out' = out \o <<Line("reply", confirm)>>
                     /\ control' = "closed"
                     /\ listener' = "closed"
                     /\ ops' = ops \o <<"recvCtrl", "closeCtrl", "closeListener", "exit0">>
                     /\ pc' = "exited"
                     /\ exitCode' = 0
                     /\ exitAt' = "error"
                ELSE /\ out' = out \o <<Line("connected", Arg(2))>>
                     /\ ops' = ops \o <<"recvCtrl">>
                     /\ pc' = "accept"
                     /\ UNCHANGED <<control, listener, exitCode, exitAt>>
    /\ UNCHANGED <<argv, fs0, dataConn, wire, prompt, fs, fOpen, received>>
    /\ UNCHANGED <<ctrlSends, ctrlEof, conns, dataBuf, dataSent, dataEof>>

\* Accept on a listener with a timeout: gives up when no connection is pending
AcceptTimeout ==
    /\ pc = "accept"
    /\ listener = "listening"
    /\ IF conns >= 1
       THEN /\ dataConn' = "open"
            /\ ops' = ops \o <<"accept">>
            /\ out' = out \o <<Line("dataConnected", Str(getDataPort))>>
            /\ pc' = "receive"
            /\ UNCHANGED <<exitCode, exitAt>>
       ELSE /\ Crash(<<>>)
            /\ UNCHANGED <<dataConn, out>>
    /\ UNCHANGED <<argv, fs0, listener, control, wire, prompt, fs, fOpen, received>>
    /\ UNCHANGED envVars

\* Accept in a loop that takes every pending connection
AcceptAgain ==
    /\ pc = "accept"
    /\ listener = "listening"
    /\ conns > Count(ops, "accept")
    /\ dataConn' = "open"
    /\ ops' = ops \o <<"accept">>
    /\ out' = out \o <<Line("dataConnected", Str(getDataPort))>>
    /\ pc' = IF conns > Count(ops, "accept") + 1 THEN "accept" ELSE "receive"
    /\ UNCHANGED <<argv, fs0, exitCode, exitAt, listener, control, wire,
                   prompt, fs, fOpen, received>>
    /\ UNCHANGED envVars

\* lines 233-235: s2.accept() blocks until a connection is pending
Accept ==
    /\ pc = "accept"
    /\ listener = "listening"
    /\ conns >= 1
    /\ dataConn' = "open"
    /\ ops' = ops \o <<"accept">>
    /\ out' = out \o <<Line("dataConnected", Str(getDataPort))>>
    /\ pc' = "receive"
    /\ UNCHANGED <<argv, fs0, exitCode, exitAt, listener, control, wire,
                   prompt, fs, fOpen, received>>
    /\ UNCHANGED envVars

-----------------------------------------------------------------------------
(* receiveData, lines 143-175 *)

\* receiveData reading the control status whatever the command
ReceiveDataAlwaysStatus ==
    /\ pc = "receive"
    /\ pc' = "rdStatus"
    /\ UNCHANGED <<argv, fs0, exitCode, exitAt, listener, control, dataConn,
                   wire, prompt, fs, fOpen, received, ops, out>>
    /\ UNCHANGED envVars

\* line 238: the call; a command that is neither -l nor -g falls through
\* both tests and returns at once
ReceiveData ==
    /\ pc = "receive"
    /\ pc' = IF Arg(3) = CmdList THEN "rdList"
             ELSE IF Arg(3) = CmdGet THEN "rdStatus"
             ELSE "cleanup"
    /\ UNCHANGED <<argv, fs0, exitCode, exitAt, listener, control, dataConn,
                   wire, prompt, fs, fOpen, received, ops, out>>
    /\ UNCHANGED envVars

\* ListRecv in a loop that reads and prints until the end of the stream
ListRecvLoop ==
    /\ pc = "rdList"
    /\ CanRecv(dataBuf, dataEof)
    /\ \E n \in RecvSizes(dataBuf, MAX_LIMIT) :
         /\ dataBuf' = SubSeq(dataBuf, n + 1, Len(dataBuf))
         /\ received' = received \o SubSeq(dataBuf, 1, n)
         /\ IF DecodeOK(SubSeq(dataBuf, 1, n))
            THEN /\ out' = out \o <<Line("dirHeader", <<>>),
                                    Line("listing", getMsg(SubSeq(dataBuf, 1, n)))>>
                 /\ ops' = ops \o <<"recvData">>
                 /\ pc' = IF n = 0 THEN "cleanup" ELSE "rdList"
                 /\ UNCHANGED <<exitCode, exitAt>>
            ELSE /\ Crash(<<"recvData">>)
                 /\ UNCHANGED out
    /\ UNCHANGED <<argv, fs0, listener, control, dataConn, wire, prompt, fs, fOpen>>
    /\ UNCHANGED <<ctrlBuf, ctrlSends, ctrlEof, conns, dataSent, dataEof>>

\* lines 145-149: one getMsg on the data connection, printed as the listing
ListRecv ==
    /\ pc = "rdList"
    /\ CanRecv(dataBuf, dataEof)
    /\ \E n \in RecvSizes(dataBuf, MAX_LIMIT) :
         /\ dataBuf' = SubSeq(dataBuf, n + 1, Len(dataBuf))
         /\ received' = received \o SubSeq(dataBuf, 1, n)
         /\ IF DecodeOK(SubSeq(dataBuf, 1, n))
            THEN /\ out' = out \o <<Line("dirHeader", <<>>),
                                    Line("listing", getMsg(SubSeq(dataBuf, 1, n)))>>
                 /\ ops' = ops \o <<"recvData">>
                 /\ pc' = "cleanup"
                 /\ UNCHANGED <<exitCode, exitAt>>
            ELSE /\ Crash(<<"recvData">>)
                 /\ UNCHANGED out
    /\ UNCHANGED <<argv, fs0, listener, control, dataConn, wire, prompt, fs, fOpen>>
    /\ UNCHANGED <<ctrlBuf, ctrlSends, ctrlEof, conns, dataSent, dataEof>>

\* the test of line 154 with the colon of line 225
IsErrorStatusColon(text) == Contains(text, ERROR_COLON)

\* the test of line 154
IsErrorStatus(text) == Contains(text, ERROR_BARE)

\* lines 153-158: status = getMsg(controlFD); an error status is printed, the
\* control and data connections are closed, and the call returns
GetStatus ==
    /\ pc = "rdStatus"
    /\ CanRecv(ctrlBuf, ctrlEof)
    /\ \E n \in RecvSizes(ctrlBuf, MAX_LIMIT) :
         LET raw == SubSeq(ctrlBuf, 1, n)
             status == getMsg(raw)
         IN  /\ ctrlBuf' = SubSeq(ctrlBuf, n + 1, Len(ctrlBuf))
             /\ IF ~DecodeOK(raw)
                THEN /\ Crash(<<"recvCtrl">>)
                     /\ UNCHANGED <<out, control, dataConn>>
                ELSE IF IsErrorStatus(status)
                THEN /\ out' = out \o <<Line("serverMessage", status)>>
                     /\ control' = "closed"
                     /\ dataConn' = "closed"
                     /\ ops' = ops \o <<"recvCtrl", "closeCtrl", "closeData">>
                     /\ pc' = "cleanup"
                     /\ UNCHANGED <<exitCode, exitAt>>
                ELSE /\ ops' = ops \o <<"recvCtrl">>
                     /\ pc' = "rdFile"
                     /\ UNCHANGED <<out, control, dataConn, exitCode, exitAt>>
    /\ UNCHANGED <<argv, fs0, listener, wire, prompt, fs, fOpen, received>>
    /\ UNCHANGED <<ctrlSends, ctrlEof, conns, dataBuf, dataSent, dataEof>>

\* the test of line 162 without lower()
DeclinesExact(answer) == answer = <<"n">>

\* the test of line 162
Declines(answer) == Lower(answer) = <<"n">>

\* OverwriteCheck asking whether or not the file exists
OverwriteCheckAlways ==
    /\ pc = "rdFile"
    /\ \E answer \in Answers :
         /\ prompt' = [shown |-> TRUE, answer |-> answer]
         /\ ops' = ops \o <<"isfile", "prompt">>
         /\ IF Declines(answer)
            THEN /\ out' = out \o <<Line("aborted", <<>>)>>
                 /\ pc' = "cleanup"
            ELSE /\ pc' = "rdOpen"
                 /\ UNCHANGED out
    /\ UNCHANGED <<argv, fs0, exitCode, exitAt, listener, control, dataConn,
                   wire, fs, fOpen, received>>
    /\ UNCHANGED envVars

\* lines 160-164: os.path.isfile, and the prompt when the file exists
OverwriteCheck ==
    /\ pc = "rdFile"
    /\ IF fs.exists
       THEN \E answer \in Answers :
              /\ prompt' = [shown |-> TRUE, answer |-> answer]
              /\ ops' = ops \o <<"isfile", "prompt">>
              /\ IF Declines(answer)
                 THEN /\ out' = out \o <<Line("aborted", <<>>)>>
                      /\ pc' = "cleanup"
                 ELSE /\ pc' = "rdOpen"
                      /\ UNCHANGED out
       ELSE /\ ops' = ops \o <<"isfile">>
            /\ pc' = "rdOpen"
            /\ UNCHANGED <<prompt, out>>
    /\ UNCHANGED <<argv, fs0, exitCode, exitAt, listener, control, dataConn,
                   wire, fs, fOpen, received>>
    /\ UNCHANGED envVars

\* what open(name, 'ab') would leave of the file
OpenedAppend(old) == [exists |-> TRUE, data |-> old.data]

\* what open(name, 'wb') leaves of the file
OpenedFile(old) == [exists |-> TRUE, data |-> <<>>]

\* lines 166-167: open(sys.argv[4], 'wb') creates or truncates the file, or
\* raises OSError and leaves it alone
OpenFile ==
    /\ pc = "rdOpen"
    /\ \E ok \in BOOLEAN :
         IF ok
         THEN /\ fs' = OpenedFile(fs)
              /\ fOpen' = TRUE
              /\ out' = out \o <<Line("transferring", Arg(4))>>
              /\ ops' = ops \o <<"open">>
              /\ pc' = "rdLoop"
              /\ UNCHANGED <<exitCode, exitAt>>
         ELSE /\ Crash(<<"open">>)
              /\ UNCHANGED <<fs, fOpen, out>>
    /\ UNCHANGED <<argv, fs0, listener, control, dataConn, wire, prompt, received>>
    /\ UNCHANGED envVars

\* what f.write(chunk) leaves of the file
Written(old, chunk) == [exists |-> TRUE, data |-> old.data \o chunk]

\* RecvChunk on a socket that does not block: no byte pending ends the loop
RecvChunkNoWait ==
    /\ pc = "rdLoop"
    /\ \E n \in RecvSizes(dataBuf, ChunkSize) :
         /\ dataBuf' = SubSeq(dataBuf, n + 1, Len(dataBuf))
         /\ received' = received \o SubSeq(dataBuf, 1, n)
         /\ IF n = 0
            THEN /\ fOpen' = FALSE
                 /\ out' = out \o <<Line("complete", <<>>)>>
                 /\ ops' = ops \o <<"recvData", "closeFile">>
                 /\ pc' = "cleanup"
                 /\ UNCHANGED <<fs, exitCode, exitAt>>
            ELSE /\ fs' = Written(fs, SubSeq(dataBuf, 1, n))
                 /\ ops' = ops \o <<"recvData", "write">>
                 /\ UNCHANGED <<pc, fOpen, exitCode, exitAt, out>>
    /\ UNCHANGED <<argv, fs0, listener, control, dataConn, wire, prompt>>
    /\ UNCHANGED <<ctrlBuf, ctrlSends, ctrlEof, conns, dataSent, dataEof>>

\* lines 168-175: one turn of the loop.  recv returns nothing at the end of
\* the stream, which ends the loop; a chunk is written, or the write raises
\* OSError and the with statement closes f on the way out
RecvChunk ==
    /\ pc = "rdLoop"
    /\ CanRecv(dataBuf, dataEof)
    /\ \E n \in RecvSizes(dataBuf, ChunkSize) :
         /\ dataBuf' = SubSeq(dataBuf, n + 1, Len(dataBuf))
         /\ received' = received \o SubSeq(dataBuf, 1, n)
         /\ IF n = 0
            THEN /\ fOpen' = FALSE
                 /\ out' = out \o <<Line("complete", <<>>)>>
                 /\ ops' = ops \o <<"recvData", "closeFile">>
                 /\ pc' = "cleanup"
                 /\ UNCHANGED <<fs, exitCode, exitAt>>
            ELSE \E ok \in BOOLEAN :
                   /\ IF ok
                      THEN /\ fs' = Written(fs, SubSeq(dataBuf, 1, n))
                           /\ ops' = ops \o <<"recvData", "write">>
                           /\ UNCHANGED <<pc, fOpen, exitCode, exitAt>>
                      ELSE /\ fOpen' = FALSE
                           /\ Crash(<<"recvData", "write", "closeFile">>)
                           /\ UNCHANGED fs
                   /\ UNCHANGED out
    /\ UNCHANGED <<argv, fs0, listener, control, dataConn, wire, prompt>>
    /\ UNCHANGED <<ctrlBuf, ctrlSends, ctrlEof, conns, dataSent, dataEof>>

\* Cleanup ending with the status 1 after a message from the server
CleanupStatus ==
    /\ pc = "cleanup"
    /\ control' = "closed"
    /\ listener' = "closed"
    /\ dataConn' = "closed"
    /\ out' = out \o <<Line("closing", <<>>)>>
    /\ pc' = "exited"
    /\ IF \E i \in 1..Len(out) : out[i].k = "serverMessage"
       THEN /\ exitCode' = 1
            /\ ops' = ops \o <<"closeCtrl", "closeListener", "closeData", "exit1">>
       ELSE /\ exitCode' = 0
            /\ ops' = ops \o <<"closeCtrl", "closeListener", "closeData", "exit0">>
    /\ exitAt' = "end"
    /\ UNCHANGED <<argv, fs0, wire, prompt, fs, fOpen, received>>
    /\ UNCHANGED envVars

\* lines 241-245: the three closes (closing a closed socket does nothing),
\* the closing message and sys.exit(0)
Cleanup ==
    /\ pc = "cleanup"
    /\ control' = "closed"
    /\ listener' = "closed"
    /\ dataConn' = "closed"
    /\ ops' = ops \o <<"closeCtrl", "closeListener", "closeData", "exit0">>
    /\ out' = out \o <<Line("closing", <<>>)>>
    /\ pc' = "exited"
    /\ exitCode' = 0
    /\ exitAt' = "end"
    /\ UNCHANGED <<argv, fs0, wire, prompt, fs, fOpen,
                   received>>
    /\ UNCHANGED envVars

-----------------------------------------------------------------------------
(* The server.  The client sees a stream only when it reads it and the data *)
(* port only when it accepts, and a send, a close or a connect commutes    *)
(* with every client step that does neither: each server step is taken at  *)
(* the client position that can observe it, in any number and order there. *)

\* the client is at a read of the control connection (lines 224, 153)
AtCtrlRead == pc \in {"confirm", "rdStatus"}

SrvSendCtrl ==
    /\ AtCtrlRead
    /\ control = "connected"
    /\ ~ctrlEof
    /\ ctrlSends < MaxCtrlSends
    /\ \E m \in CtrlMsgs : ctrlBuf' = ctrlBuf \o m
    /\ ctrlSends' = ctrlSends + 1
    /\ UNCHANGED <<argv, fs0, ctrlEof, conns, dataBuf, dataSent, dataEof>>
    /\ UNCHANGED progVars

SrvCloseCtrl ==
    /\ AtCtrlRead
    /\ control = "connected"
    /\ ~ctrlEof
    /\ ctrlEof' = TRUE
    /\ UNCHANGED <<argv, fs0, ctrlBuf, ctrlSends, conns, dataBuf, dataSent, dataEof>>
    /\ UNCHANGED progVars

\* the server connects to the data port named in the request
SrvConnect ==
    /\ pc = "accept"
    /\ listener = "listening"
    /\ conns < MaxConnects
    /\ conns' = conns + 1
    /\ UNCHANGED <<argv, fs0, ctrlBuf, ctrlSends, ctrlEof, dataBuf, dataSent, dataEof>>
    /\ UNCHANGED progVars

SrvSendData ==
    /\ dataConn = "open"
    /\ pc # "exited"
    /\ ~dataEof
    /\ Len(dataSent) < MaxData
    /\ \E b \in DataBytes :
         /\ dataBuf' = Append(dataBuf, b)
         /\ dataSent' = Append(dataSent, b)
    /\ UNCHANGED <<argv, fs0, ctrlBuf, ctrlSends, ctrlEof, conns, dataEof>>
    /\ UNCHANGED progVars

SrvCloseData ==
    /\ dataConn = "open"
    /\ pc # "exited"
    /\ ~dataEof
    /\ dataEof' = TRUE
    /\ UNCHANGED <<argv, fs0, ctrlBuf, ctrlSends, ctrlEof, conns, dataBuf, dataSent>>
    /\ UNCHANGED progVars

-----------------------------------------------------------------------------

Next ==
    \/ SyntaxCheck
    \/ GetDataPort
    \/ SocketStart
    \/ Listen
    \/ InitiateContact
    \/ Send
    \/ GetConfirm
    \/ Accept
    \/ ReceiveData
    \/ ListRecv
    \/ GetStatus
    \/ OverwriteCheck
    \/ OpenFile
    \/ RecvChunk
    \/ Cleanup
    \/ SrvSendCtrl
    \/ SrvCloseCtrl
    \/ SrvConnect
    \/ SrvSendData
    \/ SrvCloseData

Spec == Init /\ [][Next]_vars

-----------------------------------------------------------------------------
(* The program with a server that cooperates, under fairness.  A process   *)
(* that can take its next step takes it (a blocking call returns once it   *)
(* can), and a user who is asked answers.  The server answers the request  *)
(* with one acknowledgement, connects to the data port, sends one status   *)
(* when the client waits for it, sends some bytes on the data connection   *)
(* and closes it.                                                          *)

Program ==
    \/ SyntaxCheck
    \/ GetDataPort
    \/ SocketStart
    \/ Listen
    \/ InitiateContact
    \/ Send
    \/ GetConfirm
    \/ Accept
    \/ ReceiveData
    \/ ListRecv
    \/ GetStatus
    \/ OverwriteCheck
    \/ OpenFile
    \/ RecvChunk
    \/ Cleanup

AckMsg == <<"O", "K", NL>>

StatusMsgs == {<<"O", "K", NL>>, <<"E", "R", "R", "O", "R", ":", "f">>}

\* the acknowledgement, read at line 224
SrvAck ==
    /\ pc = "confirm"
    /\ control = "connected"
    /\ ctrlSends = 0
    /\ ctrlBuf' = ctrlBuf \o AckMsg
    /\ ctrlSends' = 1
    /\ UNCHANGED <<argv, fs0, ctrlEof, conns, dataBuf, dataSent, dataEof>>
    /\ UNCHANGED progVars

\* the deferred status of a GET, read at line 153
SrvStatus ==
    /\ pc = "rdStatus"
    /\ control = "connected"
    /\ ctrlSends = 1
    /\ \E m \in StatusMsgs : ctrlBuf' = ctrlBuf \o m
    /\ ctrlSends' = 2
    /\ UNCHANGED <<argv, fs0, ctrlEof, conns, dataBuf, dataSent, dataEof>>
    /\ UNCHANGED progVars

NextFair ==
    \/ Program
    \/ SrvAck
    \/ SrvStatus
    \/ SrvConnect
    \/ SrvSendData
    \/ SrvCloseData

FairSpec ==
    /\ Init /\ [][NextFair]_vars
    /\ WF_vars(Program)
    /\ WF_vars(SrvAck) /\ WF_vars(SrvStatus)
    /\ WF_vars(SrvConnect) /\ WF_vars(SrvCloseData)

-----------------------------------------------------------------------------
(* The program up to the send, lines 203-221, over requests of every       *)
(* command, data ports from 1 to 65535 and file names of many lengths.     *)

NameLens == {1, 52, 53, 54, MaxNameLen}

Name(n) == [i \in 1..n |-> "f"]

RequestPorts == {<<"1">>, <<"0", "5", "0">>, <<"6", "5", "5", "3", "5">>, <<"x">>}

RequestArgvs ==
    { <<<<"ftclient.py">>, <<"h">>, <<"8", "0">>, c>> \o t :
        c \in {CmdList, CmdGet, CmdOther},
        t \in {<<dp>> : dp \in RequestPorts}
              \cup {<<Name(n), dp>> : n \in NameLens, dp \in RequestPorts} }

InitRequest ==
    /\ argv \in RequestArgvs
    /\ fs0 = [exists |-> FALSE, data |-> <<>>]
    /\ fs = fs0
    /\ pc = "start"
    /\ exitCode = -1
    /\ exitAt = "none"
    /\ listener = "none"
    /\ control = "none"
    /\ dataConn = "none"
    /\ wire = <<>>
    /\ prompt = NoPrompt
    /\ fOpen = FALSE
    /\ received = <<>>
    /\ ops = <<>>
    /\ out = <<>>
    /\ ctrlBuf = <<>>
    /\ ctrlSends = 0
    /\ ctrlEof = FALSE
    /\ conns = 0
    /\ dataBuf = <<>>
    /\ dataSent = <<>>
    /\ dataEof = FALSE

NextRequest ==
    \/ SyntaxCheck
    \/ GetDataPort
    \/ SocketStart
    \/ Listen
    \/ InitiateContact
    \/ Send

SpecRequest == InitRequest /\ [][NextRequest]_vars

-----------------------------------------------------------------------------
(* Vocabulary of the properties *)

IsList == Arg(3) = CmdList
IsGet == Arg(3) = CmdGet

Did(op) == \E i \in 1..Len(ops) : ops[i] = op

\* every b in ops has an a before it
Precedes(a, b) ==
    \A j \in 1..Len(ops) : ops[j] = b => \E i \in 1..(j - 1) : ops[i] = a

Printed(kind) == \E i \in 1..Len(out) : out[i].k = kind

IsPrefix(s, t) == Len(s) <= Len(t) /\ SubSeq(t, 1, Len(s)) = s

SocketsClosed ==
    /\ listener \in {"none", "closed"}
    /\ control \in {"none", "closed"}
    /\ dataConn \in {"none", "closed"}

\* a step in which the program reads the control connection, the bytes the
\* read returns, and their text
CtrlReadStep == pc \in {"confirm", "rdStatus"} /\ ops' # ops
ReadRaw == SubSeq(ctrlBuf, 1, Len(ctrlBuf) - Len(ctrlBuf'))
ReadText == Decode(ReadRaw)

\* the states of the session, read off the position of the program
SessionState ==
    CASE pc \in {"start", "getport", "socketStart", "listen"} -> "INIT"
      [] pc = "connect" -> "LISTENING"
      [] pc = "send" -> "CONTROL_CONNECTED"
      [] pc = "confirm" -> "REQUEST_SENT"
      [] pc = "accept" -> "REPLY_RECEIVED"
      [] pc = "receive" -> "DATA_CONNECTED"
      [] pc \in {"rdList", "rdStatus", "rdFile", "rdOpen", "rdLoop", "cleanup"}
           -> "TRANSFERRING"
      [] pc = "exited" /\ exitAt = "end" -> "DONE"
      [] OTHER -> "FAILED"

StateOrder ==
    <<"INIT", "LISTENING", "CONTROL_CONNECTED", "REQUEST_SENT",
      "REPLY_RECEIVED", "DATA_CONNECTED", "TRANSFERRING", "DONE">>

Successor(a, b) == \E i \in 1..(Len(StateOrder) - 1) : StateOrder[i] = a /\ StateOrder[i + 1] = b

-----------------------------------------------------------------------------
(* C1: the data-port listener is listening before the control connection   *)
(* is opened and before the request is sent, and it goes on listening      *)
(* after the request is sent until the program closes it.                  *)
C1_ListenerBeforeRequest ==
    /\ (control # "none" \/ wire # <<>>) => listener \in {"listening", "closed"}
    /\ (wire # <<>> /\ ~Did("closeListener")) => listener = "listening"
    /\ Precedes("listen", "socket")
    /\ Precedes("listen", "send")

C1_Witness == wire # <<>> /\ listener = "listening" /\ conns >= 1

(* C2, as claimed: every control read is classified an error exactly when  *)
(* its text contains "ERROR", and the error path is taken exactly then.    *)
C2_ErrorIffContainsERROR ==
    [][ (CtrlReadStep /\ DecodeOK(ReadRaw)) =>
          ( Contains(ReadText, ERROR_BARE) <=>
              IF pc = "confirm" THEN pc' = "exited" /\ exitAt' = "error"
                                ELSE pc' = "cleanup" ) ]_vars

(* C3, as claimed: when the reply to the request is an error reply (its    *)
(* text contains "ERROR"), the client prints it, closes the control        *)
(* connection and the listener, exits 0 and never accepts.                 *)
C3_ErrorReplyEndsSession ==
    [][ (pc = "confirm" /\ ops' # ops /\ DecodeOK(ReadRaw)
            /\ Contains(ReadText, ERROR_BARE)) =>
          ( /\ pc' = "exited" /\ exitCode' = 0
            /\ control' = "closed" /\ listener' = "closed"
            /\ Printed("reply")'
            /\ ~Did("accept")' /\ ~Did("recvData")'
            /\ fs' = fs0 ) ]_vars

(* C4, as claimed: when the session has ended, every socket that was       *)
(* created has been closed.                                                *)
C4_AllSocketsClosedAtExit == pc = "exited" => SocketsClosed

(* C5: in a GET session the first thing after the accept is one read of    *)
(* the control connection; when its text contains "ERROR" the client       *)
(* prints it, closes the control and data connections and ends the         *)
(* transfer, and after that the local file is as it was, no prompt was     *)
(* shown, nothing was opened and nothing was read from the data connection.*)
C5_DeferredErrorLeavesStorage ==
    /\ [](IsGet => \A i \in 1..(Len(ops) - 1) :
                       ops[i] = "accept" => ops[i + 1] = "recvCtrl")
    /\ [][ (pc = "rdStatus" /\ ops' # ops /\ DecodeOK(ReadRaw)
               /\ Contains(ReadText, ERROR_BARE)) =>
             ( /\ out' = Append(out, Line("serverMessage", getMsg(ReadRaw)))
               /\ control' = "closed" /\ dataConn' = "closed"
               /\ pc' = "cleanup"
               /\ UNCHANGED <<fs, prompt, received, fOpen>> ) ]_vars
    /\ [](Printed("serverMessage") =>
             /\ fs = fs0 /\ ~prompt.shown /\ received = <<>>
             /\ ~Did("isfile") /\ ~Did("open") /\ ~Did("recvData")
             /\ control = "closed" /\ dataConn = "closed"
             /\ pc \in {"cleanup", "exited"}
             /\ (pc = "exited" => exitAt = "end"))

C5_Witness ==
    /\ IsGet /\ Printed("serverMessage") /\ pc = "exited"
    /\ fs0.exists /\ dataBuf # <<>>

(* C6: when the file exists and the user answers "n" or "N", the file is   *)
(* left as it was, nothing is opened, no byte is read from the data        *)
(* connection, which had been accepted before the prompt, and the data     *)
(* connection is closed when the session ends.                             *)
C6_DeclineLeavesFile ==
    (prompt.shown /\ prompt.answer \in {<<"n">>, <<"N">>}) =>
        /\ IsGet /\ fs0.exists
        /\ fs = fs0
        /\ received = <<>> /\ ~Did("recvData") /\ ~Did("open")
        /\ Precedes("accept", "prompt")
        /\ pc \in {"cleanup", "exited"}
        /\ (pc = "exited" => dataConn = "closed" /\ exitAt = "end")

C6_Witness ==
    prompt.shown /\ prompt.answer = <<"N">> /\ pc = "exited" /\ dataBuf # <<>>

(* C7: while a GET transfer runs the file holds exactly the bytes read so  *)
(* far from the data connection, in order; when the transfer has completed *)
(* it holds exactly the bytes the server sent before it closed the data    *)
(* connection; a failed write ends the session with status 1 and leaves    *)
(* the file with part of what was read.                                    *)
C7_FileIsWhatWasStreamed ==
    /\ pc = "rdLoop" => fOpen /\ fs = [exists |-> TRUE, data |-> received]
    /\ (Did("closeFile") /\ exitAt # "crash") =>
          /\ dataEof /\ received = dataSent
          /\ fs = [exists |-> TRUE, data |-> dataSent]
    /\ (Did("closeFile") /\ exitAt = "crash") =>
          /\ pc = "exited" /\ exitCode = 1
          /\ fs.exists /\ IsPrefix(fs.data, received) /\ fs.data # received

C7_Witness ==
    /\ exitAt = "end" /\ fs0.exists
    /\ Count(ops, "write") = 2 /\ fs.data = <<"a", NL>>

(* C8: the session state only moves to the next state of the order INIT,   *)
(* LISTENING, CONTROL_CONNECTED, REQUEST_SENT, REPLY_RECEIVED,             *)
(* DATA_CONNECTED, TRANSFERRING, DONE, or from a state that is not         *)
(* terminal to FAILED; in DONE and FAILED nothing changes any more.        *)
C8_StatesInOrder ==
    /\ [][ SessionState' # SessionState =>
             \/ Successor(SessionState, SessionState')
             \/ (SessionState' = "FAILED" /\ SessionState \notin {"DONE", "FAILED"}) ]_vars
    /\ [][ SessionState \notin {"DONE", "FAILED"} ]_vars

C8_Witness == SessionState = "DONE" /\ IsGet /\ Did("write")

(* C9, as claimed: the request is sent at most once and the control        *)
(* connection is read at most once, exactly once in a session that ends    *)
(* gracefully.                                                             *)
C9_OneSendOneRead ==
    /\ Count(ops, "send") <= 1
    /\ Count(ops, "recvCtrl") <= 1
    /\ exitAt \in {"error", "end"} => Count(ops, "recvCtrl") = 1

(* C9, amended: the request is sent at most once; the control connection   *)
(* is read once for the reply, and once more only in a GET session after   *)
(* the accept: at most once in a LIST or UNKNOWN session, at most twice in *)
(* a GET session, and a session that ends gracefully has read it exactly   *)
(* once, or exactly twice when it is a GET session that ran to the end.    *)
C9_OneSendReplyAndStatus ==
    /\ Count(ops, "send") <= 1
    /\ Did("recvCtrl") => Count(ops, "send") = 1
    /\ Count(ops, "recvCtrl") <= (IF IsGet THEN 2 ELSE 1)
    /\ Count(ops, "recvCtrl") = 2 => Did("accept")
    /\ exitAt = "error" => Count(ops, "recvCtrl") = 1
    /\ exitAt = "end" => Count(ops, "recvCtrl") = (IF IsGet THEN 2 ELSE 1)

C9_Witness == IsGet /\ exitAt = "end" /\ Count(ops, "recvCtrl") = 2 /\ Did("write")

(* C10: accept is called at most once, whatever the number of connections  *)
(* made to the data port, and only after the request was sent and the      *)
(* reply was read and taken for an acknowledgement by the client.          *)
C10_AcceptOnceAfterAck ==
    /\ Count(ops, "accept") <= 1
    /\ Precedes("send", "accept")
    /\ Precedes("recvCtrl", "accept")
    /\ Did("accept") => Printed("connected") /\ ~Printed("reply")

C10_Witness == Did("accept") /\ conns = 2 /\ pc = "exited"

(* C11: while the server has acknowledged the request and has not          *)
(* connected to the data port, the client stays in the accept: no step of  *)
(* the program happens, the session is neither DONE nor FAILED, and the    *)
(* control connection and the listener stay open; with a server that never *)
(* connects this lasts forever.                                            *)
C11_BlockedInAccept ==
    /\ [](pc = "accept" =>
            /\ control = "connected" /\ listener = "listening"
            /\ exitCode = -1 /\ SessionState = "REPLY_RECEIVED")
    /\ [][ (pc = "accept" /\ conns' = 0) => UNCHANGED progVars ]_vars
    /\ []((pc = "accept" /\ [](conns = 0)) => [](pc = "accept"))

C11_Witness ==
    pc = "accept" /\ conns = 0 /\ Printed("connected") /\ ctrlEof

(* C12: in a LIST session the client reads the data connection at most     *)
(* once and the control connection never after the accept; it prints the   *)
(* header and then the text of that one read; it touches no local file;    *)
(* what the server sends after the bytes of that read is never read or     *)
(* printed; a LIST session that runs to the end has done the one read.     *)
C12_ListOneRead ==
    IsList =>
      /\ Count(ops, "recvData") <= 1
      /\ \A i, j \in 1..Len(ops) :
            (ops[i] = "accept" /\ ops[j] = "recvCtrl") => j < i
      /\ fs = fs0 /\ ~fOpen /\ ~prompt.shown
      /\ ~Did("isfile") /\ ~Did("open") /\ ~Did("write")
      /\ IsPrefix(received, dataSent)
      /\ ~Did("recvData") => received = <<>>
      /\ Printed("dirHeader") <=> (Did("recvData") /\ DecodeOK(received))
      /\ Printed("dirHeader") =>
            /\ Cardinality({i \in 1..Len(out) : out[i].k \in {"dirHeader", "listing"}}) = 2
            /\ \E i \in 1..(Len(out) - 1) :
                  /\ out[i] = Line("dirHeader", <<>>)
                  /\ out[i + 1] = Line("listing", Strip(Decode(received)))
      /\ exitAt = "end" => Printed("dirHeader")

C12_Witness ==
    /\ IsList /\ exitAt = "end"
    /\ received = <<"a", NL>> /\ dataSent = <<"a", NL, "a">>
    /\ \E i \in 1..Len(out) : out[i] = Line("listing", <<"a">>)

(* C13: the request sent begins with "PORTSTART:", the data port in        *)
(* decimal, "PORTEND", "CMD:" and the command body: "LIST", or             *)
(* "GETFILENAME:" + file name + "FILENAMEEND" for a GET, or "UNKNOWN"; the *)
(* file name field is there only for a GET; and when that content is       *)
(* shorter than 99 characters, '#' fills every position after it up to     *)
(* index 98 and index 99 holds the NUL.                                    *)
C13_Content ==
    <<"P", "O", "R", "T", "S", "T", "A", "R", "T", ":">> \o Str(ParseInt(DataPortArg))
      \o <<"P", "O", "R", "T", "E", "N", "D", "C", "M", "D", ":">>
      \o (IF Arg(3) = <<"-", "l">> THEN <<"L", "I", "S", "T">>
          ELSE IF Arg(3) = <<"-", "g">>
          THEN <<"G", "E", "T", "F", "I", "L", "E", "N", "A", "M", "E", ":">>
                 \o Arg(4) \o <<"F", "I", "L", "E", "N", "A", "M", "E", "E", "N", "D">>
          ELSE <<"U", "N", "K", "N", "O", "W", "N">>)

C13_RequestLayout ==
    \A w \in 1..Len(wire) :
      /\ IsPrefix(C13_Content, wire[w])
      /\ Arg(3) # <<"-", "g">> => ~Contains(wire[w], <<"F", "I", "L", "E", "N", "A", "M", "E">>)
      /\ Len(C13_Content) < 99 =>
            /\ Len(wire[w]) = 100
            /\ \A k \in (Len(C13_Content) + 1)..99 : wire[w][k] = "#"
            /\ wire[w][100] = "NUL"

C13_Witness ==
    /\ wire # <<>> /\ IsGet /\ Len(Arg(4)) = 52
    /\ DataPortArg = <<"0", "5", "0">>
    /\ wire[1][98] = "D" /\ wire[1][99] = "#" /\ wire[1][100] = "NUL"

(* C14, as claimed: every request sent on the control channel is exactly   *)
(* 100 characters long and its last character, at index 99, is the NUL.    *)
C14_RequestLength100 ==
    \A w \in 1..Len(wire) : Len(wire[w]) = 100 /\ wire[w][100] = "NUL"

(* C15: when binding the data listener fails the session ends FAILED with  *)
(* a status that is not 0 and the control connection is never attempted;   *)
(* when the control connection fails the session ends FAILED with a status *)
(* that is not 0, and no request is sent, no reply read, no accept made.   *)
C15_OpenFailuresAreFatal ==
    /\ listener = "created" =>
          /\ pc = "exited" /\ exitCode > 0 /\ SessionState = "FAILED"
          /\ control = "none" /\ ~Did("socket") /\ ~Did("connect")
          /\ wire = <<>>
    /\ control = "created" =>
          /\ pc = "exited" /\ exitCode > 0 /\ SessionState = "FAILED"
          /\ wire = <<>> /\ ~Did("send") /\ ~Did("recvCtrl") /\ ~Did("accept")
          /\ ~Did("connect")

C15_Witness ==
    control = "created" /\ listener = "listening" /\ exitCode = 1 /\ IsInt(Arg(2))

(* C16: the exit status is 0 on every graceful end: after a listing was    *)
(* printed, after a transfer completed, after an error reply or an error   *)
(* status of the server was printed, and after the user declined to        *)
(* overwrite; once one of these has happened nothing fails any more.       *)
C16_GracefulExitZero ==
    /\ [](Printed("reply") => pc = "exited" /\ exitCode = 0)
    /\ []((Printed("listing") \/ Printed("complete") \/ Printed("serverMessage")
              \/ Printed("aborted")) =>
            /\ pc \in {"cleanup", "exited"}
            /\ pc = "exited" => exitCode = 0 /\ ops[Len(ops)] = "exit0")
    /\ [][ pc = "cleanup" => pc' = "exited" /\ exitCode' = 0 ]_progVars
    /\ [](exitAt \in {"error", "end"} <=> exitCode = 0)

C16_Witness ==
    /\ pc = "exited" /\ exitCode = 0 /\ Printed("aborted")
    /\ prompt.answer = <<"n">>

C18_PromptAndOrder ==
    IsGet =>
      /\ Did("isfile") =>
            /\ Count(ops, "recvCtrl") = 2 /\ ~Printed("serverMessage")
            /\ prompt.shown <=> fs0.exists
      /\ ~Did("isfile") => ~prompt.shown
      /\ (Count(ops, "recvCtrl") = 2 /\ ~Printed("serverMessage")
            /\ exitAt # "crash" /\ pc # "rdFile") => Did("isfile")
      /\ Printed("aborted") <=>
            (prompt.shown /\ prompt.answer \in {<<"n">>, <<"N">>})
      /\ Printed("aborted") => ~Did("open") /\ fs = fs0 /\ received = <<>>
      /\ (prompt.shown /\ prompt.answer \notin {<<"n">>, <<"N">>}) =>
            /\ pc = "rdOpen" \/ Did("open")
            /\ (Did("open") /\ exitAt # "crash") => fs.data = received
      /\ \A j \in 1..Len(ops) :
            /\ ops[j] = "isfile" => Count(SubSeq(ops, 1, j - 1), "recvCtrl") = 2
            /\ ops[j] = "prompt" => ops[j - 1] = "isfile"
            /\ ops[j] = "open" =>
                  /\ \E i \in 1..(j - 1) : ops[i] = "isfile"
                  /\ \A i \in 1..Len(ops) : ops[i] = "prompt" => i < j
            /\ ops[j] = "recvData" => \E i \in 1..(j - 1) : ops[i] = "open"

C18_Witness ==
    /\ IsGet /\ prompt.shown /\ prompt.answer = <<>>
    /\ exitAt = "end" /\ fs.data = <<"a">>

(* C19, as claimed: in a GET session the first read of the control         *)
(* connection never takes the deferred status along with the               *)
(* acknowledgement: when the server has sent both, the status is still     *)
(* there for the second read, which therefore never waits for a message    *)
(* the server has already sent.                                            *)
C19_FirstReadLeavesStatus ==
    /\ (IsGet /\ Count(ops, "recvCtrl") = 1 /\ ctrlSends >= 2) => ctrlBuf # <<>>
    /\ ~(IsGet /\ pc = "rdStatus" /\ ctrlBuf = <<>> /\ ~ctrlEof /\ ctrlSends >= 2)

(* C20, as claimed: a command that is neither -l nor -g is sent as         *)
(* "UNKNOWN"; an error reply to it (its text contains "ERROR") is printed, *)
(* the control connection and the listener are closed, nothing is          *)
(* accepted and the status is 0; and such a session never reads the data   *)
(* connection, never reads the control connection twice and touches no     *)
(* local file.                                                             *)
C20_UnknownSession ==
    /\ []((~IsList /\ ~IsGet) =>
            /\ \A w \in 1..Len(wire) :
                  Contains(wire[w], <<"C", "M", "D", ":", "U", "N", "K", "N", "O", "W", "N", "#">>)
            /\ ~Did("recvData") /\ received = <<>>
            /\ Count(ops, "recvCtrl") <= 1
            /\ fs = fs0 /\ ~fOpen /\ ~prompt.shown
            /\ ~Did("isfile") /\ ~Did("open") /\ ~Did("write"))
    /\ [][ (~IsList /\ ~IsGet /\ pc = "confirm" /\ ops' # ops
               /\ DecodeOK(ReadRaw) /\ Contains(ReadText, ERROR_BARE)) =>
             ( /\ out' = Append(out, Line("reply", getMsg(ReadRaw)))
               /\ control' = "closed" /\ listener' = "closed"
               /\ pc' = "exited" /\ exitCode' = 0
               /\ ~Did("accept")' ) ]_vars

(* C20, the part that holds: the same with an error reply taken as the     *)
(* client takes it, a text that contains "ERROR:".                         *)
C20_UnknownSessionColon ==
    /\ []((~IsList /\ ~IsGet) =>
            /\ \A w \in 1..Len(wire) :
                  Contains(wire[w], <<"C", "M", "D", ":", "U", "N", "K", "N", "O", "W", "N", "#">>)
            /\ ~Did("recvData") /\ received = <<>>
            /\ Count(ops, "recvCtrl") <= 1
            /\ fs = fs0 /\ ~fOpen /\ ~prompt.shown
            /\ ~Did("isfile") /\ ~Did("open") /\ ~Did("write"))
    /\ [][ (~IsList /\ ~IsGet /\ pc = "confirm" /\ ops' # ops
               /\ DecodeOK(ReadRaw) /\ Contains(ReadText, ERROR_COLON)) =>
             ( /\ out' = Append(out, Line("reply", getMsg(ReadRaw)))
               /\ control' = "closed" /\ listener' = "closed"
               /\ pc' = "exited" /\ exitCode' = 0
               /\ ~Did("accept")' ) ]_vars

====
